---- MODULE Spec2Model ----
(***************************************************************************)
(* Model of creation_service/scripts/get_refresh_token.py: the command     *)
(* line helper that drives the OAuth installed-application flow through    *)
(* google_auth_oauthlib's InstalledAppFlow and writes the credential       *)
(* payload to a JSON file, an env file and standard output.                *)
(*                                                                         *)
(* Text is a sequence of atoms.  A character of a data string (a client    *)
(* id, a token) is one atom of length one; the fixed pieces of syntax the  *)
(* program emits (a JSON key, "null", an env variable name, a banner) are  *)
(* atoms too.  The quote atom that delimits a JSON string or an env value  *)
(* is the same atom as a quote character inside a data string.             *)
(***************************************************************************)
EXTENDS Integers, Sequences, FiniteSets, TLC

\* Longest refresh token drawn from Alphabet.
MaxLen == 1
\* Number of times the helper is invoked in one behaviour.
MaxRuns == 2

\* Characters of the data strings: a plain character, the double quote and the
\* backslash.  OAuth client ids, secrets and tokens are printable ASCII
\* (RFC 6749 appendix A), so no data string holds a line break.
Alphabet == {"a", "\"", "\\"}

Strings(n) == UNION {[1..k -> Alphabet] : k \in 0..n}

\* Python's None / a present value.
None == [some |-> FALSE, val |-> <<>>]
Some(v) == [some |-> TRUE, val |-> v]

\* The text str(None) produces.
NoneText == <<"N", "o", "n", "e">>

(***************************************************************************)
(* The command line (parse_args, main).                                    *)
(***************************************************************************)
\* Two paths for the sinks, and the path given as --client-secret.
SinkPaths == {"out/creds.json", "out/yt.env"}
ClientSecretPath == "secrets/client.json"
Paths == SinkPaths \cup {ClientSecretPath}
\* args.output / args.env_file not given: main passes None.
NoPath == "-"
DefaultScopes == <<"https://www.googleapis.com/auth/youtube.upload">>

\* The Namespace parse_args returns, as main hands it to run_flow.  The
\* client-secret path is ClientSecretPath; the two sinks range over every
\* path, that one included.
Args ==
  [client_secret : {ClientSecretPath}, scopes : {DefaultScopes}, no_local_server : BOOLEAN,
   output : Paths \cup {NoPath}, env_file : Paths \cup {NoPath}, quiet : BOOLEAN]

(***************************************************************************)
(* The external delegate's data: flow.client_config and the credentials.   *)
(***************************************************************************)
ClientConfigs ==
  {[client_id |-> i, client_secret |-> <<"\\", "s">>] : i \in {<<"a">>, <<"\"", "i">>}}

\* creds.expiry: a datetime (day of the month, microsecond) or None.
Datetimes == {[day |-> 1, micro |-> 0], [day |-> 2, micro |-> 5]}
NoDatetime == [day |-> 0, micro |-> 0]

RefreshTokens == {Some(s) : s \in Strings(MaxLen) \cup {NoneText}} \cup {None}
AccessTokens == {<<"t">>, <<"\\", "\"">>}
Expiries == {[some |-> TRUE, val |-> d] : d \in Datetimes}
              \cup {[some |-> FALSE, val |-> NoDatetime]}

Credentials == [refresh_token : RefreshTokens, token : AccessTokens, expiry : Expiries]

\* datetime.isoformat(): the fraction is printed only when microsecond # 0.
DigitAtom(n) == CASE n = 0 -> "0" [] n = 1 -> "1" [] n = 2 -> "2" [] n = 3 -> "3"
                  [] n = 4 -> "4" [] n = 5 -> "5" [] n = 6 -> "6" [] n = 7 -> "7"
                  [] n = 8 -> "8" [] OTHER -> "9"
isoformat(d) ==
  <<"2026-01-0", DigitAtom(d.day), "T00:00:00">>
    \o (IF d.micro = 0 THEN <<>> ELSE <<".00000", DigitAtom(d.micro)>>)

(***************************************************************************)
(* The credential payload and its renderings (run_flow, lines 74-100).     *)
(***************************************************************************)
PayloadKeys ==
  <<"client_id", "client_secret", "refresh_token", "access_token", "token_expiry">>

\* MakePayload with the expiry rendered by str() whether present or not.
MakePayload_StrExpiry(config, c) ==
  [client_id |-> Some(config.client_id),
   client_secret |-> Some(config.client_secret),
   refresh_token |-> c.refresh_token,
   access_token |-> Some(c.token),
   token_expiry |-> IF c.expiry.some THEN Some(isoformat(c.expiry.val)) ELSE Some(NoneText)]

\* payload = {...}: token_expiry is creds.expiry.isoformat() if creds.expiry
\* else None; a datetime is always truthy.
MakePayload(config, c) ==
  [client_id |-> Some(config.client_id),
   client_secret |-> Some(config.client_secret),
   refresh_token |-> c.refresh_token,
   access_token |-> Some(c.token),
   token_expiry |-> IF c.expiry.some THEN Some(isoformat(c.expiry.val)) ELSE None]

PayloadValues(p) ==
  <<p.client_id, p.client_secret, p.refresh_token, p.access_token, p.token_expiry>>

\* JsonEscape that copies every character as it is.
JsonEscape_Raw(s) == s

\* json's string encoder: the quote and the backslash are escaped with a
\* backslash, every other character of Alphabet is copied.
RECURSIVE JsonEscape(_)
JsonEscape(s) ==
  IF s = <<>> THEN <<>>
  ELSE (IF Head(s) \in {"\"", "\\"} THEN <<"\\", Head(s)>> ELSE <<Head(s)>>)
         \o JsonEscape(Tail(s))

\* json's rendering of one value: None is null, a str is a quoted string.
JsonValue(v) == IF v.some THEN <<"\"">> \o JsonEscape(v.val) \o <<"\"">> ELSE <<"null">>

JsonMember(k, v) == <<"  ", "\"", k, "\"", ": ">> \o JsonValue(v)

RECURSIVE JsonMembers(_, _)
JsonMembers(keys, vals) ==
  IF keys = <<>> THEN <<>>
  ELSE JsonMember(Head(keys), Head(vals))
         \o (IF Len(keys) = 1 THEN <<>> ELSE <<",", "\n">>)
         \o JsonMembers(Tail(keys), Tail(vals))

\* json.dumps(payload, indent=2), which is also what json.dump writes.
JsonDumps(p) ==
  <<"{", "\n">> \o JsonMembers(PayloadKeys, PayloadValues(p)) \o <<"\n", "}">>

\* What line 85-86 leave in the --output file.
OutputText(p) == JsonDumps(p) \o <<"\n">>

\* An f-string's rendering of a payload value: str(None) is the text None.
PyFormat(v) == IF v.some THEN v.val ELSE NoneText

EnvLine(name, v) == <<name, "\"">> \o PyFormat(v) \o <<"\"">>

\* lines = [...] of lines 90-94.
EnvLines(p) ==
  <<EnvLine("YOUTUBE_CLIENT_ID=", p.client_id),
    EnvLine("YOUTUBE_CLIENT_SECRET=", p.client_secret),
    EnvLine("YOUTUBE_REFRESH_TOKEN=", p.refresh_token)>>

RECURSIVE JoinLines(_)
JoinLines(ls) ==
  IF ls = <<>> THEN <<>>
  ELSE Head(ls) \o (IF Len(ls) = 1 THEN <<>> ELSE <<"\n">>) \o JoinLines(Tail(ls))

\* "\n".join(lines) + "\n", the text line 95 writes.
EnvText(p) == JoinLines(EnvLines(p)) \o <<"\n">>

Banner == "Copy these values into your environment (store securely):"
Trailer ==
  "Export the client_id, client_secret, and refresh_token as env vars before running the service."

\* The three print calls of lines 98-100; print ends its text with a line break.
PrintedText(p) ==
  <<"\n", Banner, "\n", "\n">> \o JsonDumps(p) \o <<"\n">> \o <<"\n", Trailer, "\n">>

(***************************************************************************)
(* State.                                                                  *)
(***************************************************************************)
VARIABLES
  args,      \* the parsed command line of this behaviour
  provider,  \* the credentials the authorization server issues on consent,
             \* the same each time the helper is run in one behaviour
  fs,        \* the file at each path
  dirs,      \* the paths whose parent directory exists
  run,       \* which invocation of the helper this is
  pc,        \* where run_flow stands
  err,       \* the exception that ended the run, "" if none
  flow,      \* <<flow.client_config>> once the flow object is built
  creds,     \* <<creds>> once consent has returned
  payload,   \* <<payload>> once it is built
  calls,     \* the calls this run has made on the delegate, in order
  stdout,    \* what this run has printed
  fs0,       \* the files as they were when this run started
  prevOk     \* whether the previous invocation ended successfully

vars ==
  <<args, provider, fs, dirs, run, pc, err, flow, creds, payload, calls, stdout, fs0, prevOk>>

\* A file: absent, or its text; config is <<client_config>> when the text is a
\* client-secret descriptor the delegate accepts and <<>> otherwise.
Absent == [exists |-> FALSE, config |-> <<>>, text |-> <<>>]
TextFile(t) == [exists |-> TRUE, config |-> <<>>, text |-> t]
SecretFile(c) == [exists |-> TRUE, config |-> <<c>>, text |-> <<"descriptor">>]
\* Contents of a file that some other program left at a path.
Foreign == TextFile(<<"foreign">>)

\* A delegate call: the function, the path and scopes it is given, the port.
Call(fn, path, scopes, port) == [fn |-> fn, path |-> path, scopes |-> scopes, port |-> port]
NoPort == -1

Init ==
  /\ args \in Args
  /\ provider \in Credentials
  /\ fs \in [Paths -> {Absent, Foreign} \cup {SecretFile(c) : c \in ClientConfigs}]
  /\ \A p \in Paths : fs[p].config # <<>> => p = args.client_secret
  /\ dirs = {p \in Paths : fs[p].exists}
  /\ run = 1
  /\ pc = "start"
  /\ err = ""
  /\ flow = <<>>
  /\ creds = <<>>
  /\ payload = <<>>
  /\ calls = <<>>
  /\ stdout = <<>>
  /\ fs0 = fs
  /\ prevOk = FALSE

\* raise: the exception propagates out of run_flow and main, the process ends.
Raise(e) == pc' = "error" /\ err' = e

(***************************************************************************)
(* run_flow, statement by statement.                                       *)
(***************************************************************************)
\* CheckExists without the test of line 64.
CheckExists_NoCheck ==
  /\ pc = "start"
  /\ pc' = "load"
  /\ UNCHANGED <<args, provider, fs, dirs, run, err, flow, creds, payload, calls, stdout, fs0, prevOk>>

\* Lines 64-65.
CheckExists ==
  /\ pc = "start"
  /\ IF fs[args.client_secret].exists THEN pc' = "load" /\ err' = err
     ELSE Raise("FileNotFoundError")
  /\ UNCHANGED <<args, provider, fs, dirs, run, flow, creds, payload, calls, stdout, fs0, prevOk>>

\* Line 67: the delegate reads the descriptor; a malformed one raises.
FromClientSecretsFile ==
  /\ pc = "load"
  /\ calls' = Append(calls,
                Call("from_client_secrets_file", args.client_secret, args.scopes, NoPort))
  /\ IF fs[args.client_secret].config # <<>>
       THEN flow' = fs[args.client_secret].config /\ pc' = "consent" /\ err' = err
       ELSE flow' = flow /\ Raise("ValueError")
  /\ UNCHANGED <<args, provider, fs, dirs, run, creds, payload, stdout, fs0, prevOk>>

\* ConsentCall with the test of line 69 inverted.
ConsentCall_Inverted ==
  IF ~args.no_local_server THEN [fn |-> "run_console", path |-> "-", scopes |-> <<>>, port |-> -1]
  ELSE [fn |-> "run_local_server", path |-> "-", scopes |-> <<>>, port |-> 0]

\* The call lines 69-72 choose.
ConsentCall ==
  IF args.no_local_server THEN Call("run_console", NoPath, <<>>, NoPort)
  ELSE Call("run_local_server", NoPath, <<>>, 0)

\* Lines 69-72, consent granted: the delegate returns the credentials.
ConsentReturns ==
  /\ pc = "consent"
  /\ calls' = Append(calls, ConsentCall)
  /\ creds' = <<provider>>
  /\ pc' = "payload"
  /\ UNCHANGED <<args, provider, fs, dirs, run, err, flow, payload, stdout, fs0, prevOk>>

\* ConsentRaises with the failure caught once and the consent step tried again.
ConsentRaises_RetryOnce ==
  /\ pc = "consent"
  /\ calls' = Append(calls, ConsentCall)
  /\ IF Len(calls) >= 2 THEN Raise("FlowError") ELSE pc' = pc /\ err' = err
  /\ UNCHANGED <<args, provider, fs, dirs, run, flow, creds, payload, stdout, fs0, prevOk>>

\* Lines 69-72, network error or consent denied: the delegate raises.
ConsentRaises ==
  /\ pc = "consent"
  /\ calls' = Append(calls, ConsentCall)
  /\ Raise("FlowError")
  /\ UNCHANGED <<args, provider, fs, dirs, run, flow, creds, payload, stdout, fs0, prevOk>>

\* Lines 74-80.
BuildPayload ==
  /\ pc = "payload"
  /\ payload' = <<MakePayload(flow[1], creds[1])>>
  /\ pc' = "output"
  /\ UNCHANGED <<args, provider, fs, dirs, run, err, flow, creds, calls, stdout, fs0, prevOk>>

\* What a write that fails part way can leave behind: a prefix of the text.
Partial(t) == {SubSeq(t, 1, k) : k \in {0, Len(t) \div 2}}

\* Overwrite with the file opened for appending.
Overwrite_Append(old, t) == [exists |-> TRUE, config |-> <<>>, text |-> old.text \o t]

\* open(path, "w") followed by a complete write: the old content is gone.
Overwrite(old, t) == TextFile(t)

\* Lines 82-86.  mkdir, open and the write can each fail with an OSError.
WriteOutput ==
  /\ pc = "output"
  /\ IF args.output = NoPath
       THEN pc' = "env" /\ UNCHANGED <<fs, dirs, err>>
       ELSE \/ Raise("OSError") /\ UNCHANGED <<fs, dirs>>
            \/ /\ Raise("OSError")
               /\ dirs' = dirs \cup {args.output}
               /\ fs' = fs
            \/ /\ Raise("OSError")
               /\ dirs' = dirs \cup {args.output}
               /\ \E t \in Partial(OutputText(payload[1])) :
                     fs' = [fs EXCEPT ![args.output] = TextFile(t)]
            \/ /\ dirs' = dirs \cup {args.output}
               /\ fs' = [fs EXCEPT ![args.output] = Overwrite(@, OutputText(payload[1]))]
               /\ pc' = "env"
               /\ err' = err
  /\ UNCHANGED <<args, provider, run, flow, creds, payload, calls, stdout, fs0, prevOk>>

\* WriteEnvFile with line 88 an elif of line 82: no env file when --output is given.
WriteEnvFile_Elif ==
  /\ pc = "env"
  /\ IF args.env_file = NoPath \/ args.output # NoPath
       THEN pc' = "print" /\ UNCHANGED <<fs, dirs, err>>
       ELSE /\ dirs' = dirs \cup {args.env_file}
            /\ fs' = [fs EXCEPT ![args.env_file] = TextFile(EnvText(payload[1]))]
            /\ pc' = "print"
            /\ err' = err
  /\ UNCHANGED <<args, provider, run, flow, creds, payload, calls, stdout, fs0, prevOk>>

\* Lines 88-95.
WriteEnvFile ==
  /\ pc = "env"
  /\ IF args.env_file = NoPath
       THEN pc' = "print" /\ UNCHANGED <<fs, dirs, err>>
       ELSE \/ Raise("OSError") /\ UNCHANGED <<fs, dirs>>
            \/ /\ Raise("OSError")
               /\ dirs' = dirs \cup {args.env_file}
               /\ fs' = fs
            \/ /\ Raise("OSError")
               /\ dirs' = dirs \cup {args.env_file}
               /\ \E t \in Partial(EnvText(payload[1])) :
                     fs' = [fs EXCEPT ![args.env_file] = TextFile(t)]
            \/ /\ dirs' = dirs \cup {args.env_file}
               /\ fs' = [fs EXCEPT ![args.env_file] = Overwrite(@, EnvText(payload[1]))]
               /\ pc' = "print"
               /\ err' = err
  /\ UNCHANGED <<args, provider, run, flow, creds, payload, calls, stdout, fs0, prevOk>>

\* PrintPayload without the test of line 97.
PrintPayload_IgnoresQuiet ==
  /\ pc = "print"
  /\ stdout' = stdout \o PrintedText(payload[1])
  /\ pc' = "done"
  /\ UNCHANGED <<args, provider, fs, dirs, run, err, flow, creds, payload, calls, fs0, prevOk>>

\* Lines 97-100.
PrintPayload ==
  /\ pc = "print"
  /\ stdout' = IF args.quiet THEN stdout ELSE stdout \o PrintedText(payload[1])
  /\ pc' = "done"
  /\ UNCHANGED <<args, provider, fs, dirs, run, err, flow, creds, payload, calls, fs0, prevOk>>

\* The helper is started again with the same command line: a new process,
\* which shares nothing with the last one but the files.
Rerun ==
  /\ pc \in {"done", "error"}
  /\ run < MaxRuns
  /\ run' = run + 1
  /\ pc' = "start"
  /\ err' = ""
  /\ flow' = <<>>
  /\ creds' = <<>>
  /\ payload' = <<>>
  /\ calls' = <<>>
  /\ stdout' = <<>>
  /\ fs0' = fs
  /\ prevOk' = (pc = "done")
  /\ UNCHANGED <<args, provider, fs, dirs>>

Next ==
  \/ CheckExists
  \/ FromClientSecretsFile
  \/ ConsentReturns
  \/ ConsentRaises
  \/ BuildPayload
  \/ WriteOutput
  \/ WriteEnvFile
  \/ PrintPayload
  \/ Rerun

Spec == Init /\ [][Next]_vars

(***************************************************************************)
(* Readers of the written files, used to state the properties: a JSON      *)
(* parser for the text json.dump writes, and a splitter into lines.        *)
(***************************************************************************)
ParseFail == [ok |-> FALSE, keys |-> <<>>, vals |-> <<>>]
StringFail == [ok |-> FALSE, val |-> <<>>, next |-> 0]
ValueFail == [ok |-> FALSE, val |-> None, next |-> 0]

RECURSIVE SkipWs(_, _)
SkipWs(t, i) == IF i <= Len(t) /\ t[i] \in {"\n", "  "} THEN SkipWs(t, i + 1) ELSE i

\* The string whose opening quote is at i - 1: up to the first quote that no
\* backslash escapes; a backslash must be followed by a quote or a backslash.
RECURSIVE ParseString(_, _, _)
ParseString(t, i, acc) ==
  IF i > Len(t) THEN StringFail
  ELSE IF t[i] = "\"" THEN [ok |-> TRUE, val |-> acc, next |-> i + 1]
  ELSE IF t[i] = "\\"
    THEN IF i + 1 <= Len(t) /\ t[i + 1] \in {"\"", "\\"}
           THEN ParseString(t, i + 2, Append(acc, t[i + 1]))
           ELSE StringFail
  ELSE ParseString(t, i + 1, Append(acc, t[i]))

ParseValue(t, i) ==
  IF i > Len(t) THEN ValueFail
  ELSE IF t[i] = "null" THEN [ok |-> TRUE, val |-> None, next |-> i + 1]
  ELSE IF t[i] = "\""
    THEN LET r == ParseString(t, i + 1, <<>>)
         IN  [ok |-> r.ok, val |-> Some(r.val), next |-> r.next]
  ELSE ValueFail

RECURSIVE ParseMembers(_, _, _, _)
ParseMembers(t, i, keys, vals) ==
  LET j == SkipWs(t, i) IN
  IF j > Len(t) \/ t[j] # "\"" THEN ParseFail
  ELSE LET k == ParseString(t, j + 1, <<>>) IN
    IF ~k.ok \/ k.next > Len(t) \/ t[k.next] # ": " THEN ParseFail
    ELSE LET v == ParseValue(t, k.next + 1) IN
      IF ~v.ok THEN ParseFail
      ELSE LET e == SkipWs(t, v.next) IN
        IF e > Len(t) THEN ParseFail
        ELSE IF t[e] = "," THEN ParseMembers(t, e + 1, Append(keys, k.val), Append(vals, v.val))
        ELSE IF t[e] = "}" /\ SkipWs(t, e + 1) = Len(t) + 1
          THEN [ok |-> TRUE, keys |-> Append(keys, k.val), vals |-> Append(vals, v.val)]
        ELSE ParseFail

\* json.loads of a text holding one object: its keys and values, in order.
ParseJson(t) ==
  LET j == SkipWs(t, 1) IN
  IF j > Len(t) \/ t[j] # "{" THEN ParseFail ELSE ParseMembers(t, j + 1, <<>>, <<>>)

\* The parse of an object with the five payload keys and the values vs.
Parsed(vs) == [ok |-> TRUE, keys |-> [i \in 1..Len(PayloadKeys) |-> <<PayloadKeys[i]>>], vals |-> vs]

\* The lines of a text, each without the line break that ends it.
RECURSIVE SplitLines(_, _, _)
SplitLines(t, cur, acc) ==
  IF t = <<>> THEN (IF cur = <<>> THEN acc ELSE Append(acc, cur))
  ELSE IF Head(t) = "\n" THEN SplitLines(Tail(t), <<>>, Append(acc, cur))
  ELSE SplitLines(Tail(t), Append(cur, Head(t)), acc)

Lines(t) == SplitLines(t, <<>>, <<>>)

\* name"value" is the assignment line of `name` whose quoted text is `value`.
IsAssignment(line, name, value) == line = <<name, "\"">> \o value \o <<"\"">>

\* The text between the quotes of an assignment line.
QuotedText(line) == SubSeq(line, 3, Len(line) - 1)

ConsentCalls == SelectSeq(calls, LAMBDA c : c.fn \in {"run_console", "run_local_server"})

OutputSet == args.output # NoPath
EnvSet == args.env_file # NoPath
Done == pc = "done"
Failed == pc = "error"

\* The five values the payload is to carry, read off the delegate's objects.
ExpectedValues ==
  <<Some(flow[1].client_id), Some(flow[1].client_secret), creds[1].refresh_token,
    Some(creds[1].token),
    IF creds[1].expiry.some THEN Some(isoformat(creds[1].expiry.val)) ELSE None>>

\* The files a run leaves when each requested sink is written in full, the
\* --output sink first.
FilesAsRequested ==
  LET f1 == IF OutputSet
              THEN [fs0 EXCEPT ![args.output] = TextFile(OutputText(payload[1]))]
              ELSE fs0
  IN  IF EnvSet THEN [f1 EXCEPT ![args.env_file] = TextFile(EnvText(payload[1]))] ELSE f1

\* The JSON text between the banner and the trailer on standard output.
StdoutJson == SubSeq(stdout, 5, Len(stdout) - 3)

(***************************************************************************)
(* Properties.                                                             *)
(***************************************************************************)

\* C1: a run whose client-secret path does not exist ends in a
\* FileNotFoundError before any call on the delegate, and it writes no file
\* and prints nothing.
C1_MissingSecretFailsFirst ==
  ~fs0[args.client_secret].exists =>
    /\ pc \in {"start", "error"}
    /\ (Failed => err = "FileNotFoundError")
    /\ calls = <<>>
    /\ fs = fs0
    /\ dirs = {p \in Paths : fs0[p].exists}
    /\ stdout = <<>>

C1_Witness ==
  Failed /\ err = "FileNotFoundError" /\ OutputSet /\ EnvSet /\ ~args.quiet

\* C2 as stated: a finished run has either succeeded with every requested
\* sink holding the full payload, or aborted having produced no file.
C2_NoPartialSuccess ==
  /\ Done => /\ (OutputSet => fs[args.output] = TextFile(OutputText(payload[1])))
             /\ (EnvSet => fs[args.env_file] = TextFile(EnvText(payload[1])))
  /\ Failed => fs = fs0

\* C2, amended: a run that succeeded has written every requested sink in
\* full (the --env-file text last, so a path given for both sinks holds the
\* env lines); a run that aborted before the sinks (missing client secret,
\* delegate failure) has written no file; a run that aborted on an I/O error
\* has touched no file but its requested sinks, which it may have written.
C2_AbortBeforeSinksWritesNothing ==
  /\ Done => /\ fs = FilesAsRequested
             /\ (OutputSet /\ args.env_file # args.output
                   => fs[args.output] = TextFile(OutputText(payload[1])))
             /\ (EnvSet => fs[args.env_file] = TextFile(EnvText(payload[1])))
  /\ (Failed /\ err # "OSError") => (fs = fs0 /\ payload = <<>>)
  /\ (Failed /\ err = "OSError") =>
       /\ payload # <<>>
       /\ \A p \in Paths \ {args.output, args.env_file} : fs[p] = fs0[p]

\* An aborted run that has already written the --output file in full.
C2_Witness ==
  /\ Failed /\ err = "OSError" /\ OutputSet /\ EnvSet
  /\ args.env_file # args.output
  /\ fs[args.output] = TextFile(OutputText(payload[1]))
  /\ fs[args.output] # fs0[args.output]
  /\ fs[args.env_file] = fs0[args.env_file]

\* C3: a failure of the delegate is not caught and not retried: a run calls
\* a consent variant at most once, and a run in which the delegate raised has
\* ended in error with no file written and nothing printed.
C3_FlowFailureIsFatal ==
  /\ Len(ConsentCalls) <= 1
  /\ err \in {"FlowError", "ValueError"} =>
       /\ Failed
       /\ fs = fs0
       /\ stdout = <<>>
       /\ creds = <<>>
       /\ payload = <<>>
  /\ err = "FlowError" => Len(ConsentCalls) = 1

C3_Witness ==
  Failed /\ err = "FlowError" /\ OutputSet /\ EnvSet /\ ~args.quiet

\* C4: a run that gets to the consent step calls exactly one consent
\* variant: run_console when --no-local-server was given, and otherwise
\* run_local_server with port 0; the other variant is never called.
C4_VariantSelection ==
  /\ Len(ConsentCalls) <= 1
  /\ (pc \in {"payload", "output", "env", "print", "done"} \/ err \in {"FlowError", "OSError"})
       => Len(ConsentCalls) = 1
  /\ \A i \in 1..Len(ConsentCalls) :
       IF args.no_local_server
         THEN ConsentCalls[i].fn = "run_console"
         ELSE ConsentCalls[i].fn = "run_local_server" /\ ConsentCalls[i].port = 0

C4_Witness ==
  Done /\ args.no_local_server /\ Len(ConsentCalls) = 1 /\ ConsentCalls[1].fn = "run_console"

\* C5 as stated: after a successful run with --output, the file at that path
\* parses to an object with exactly the five keys and the delegate's values,
\* token_expiry being the ISO text of the expiry or null.
C5_OutputHoldsPayload ==
  (Done /\ OutputSet) => ParseJson(fs[args.output].text) = Parsed(ExpectedValues)

\* C5, amended: the same, for a run whose --env-file is not the --output path.
C5_OutputHoldsPayloadUnlessEnvSamePath ==
  (Done /\ OutputSet /\ args.env_file # args.output)
    => ParseJson(fs[args.output].text) = Parsed(ExpectedValues)

C5_Witness ==
  /\ Done /\ OutputSet /\ EnvSet /\ args.env_file # args.output
  /\ creds[1].expiry.some
  /\ creds[1].expiry.val.micro # 0

\* C6: after a successful run with --env-file, the file holds exactly three
\* lines, the assignments of the client id, the client secret and the refresh
\* token, each carrying the payload's value between the quotes.
C6_EnvFileThreeLines ==
  (Done /\ EnvSet) =>
    LET ls == Lines(fs[args.env_file].text) IN
      /\ Len(ls) = 3
      /\ IsAssignment(ls[1], "YOUTUBE_CLIENT_ID=", flow[1].client_id)
      /\ IsAssignment(ls[2], "YOUTUBE_CLIENT_SECRET=", flow[1].client_secret)
      /\ ls[3][1] = "YOUTUBE_REFRESH_TOKEN="
      /\ ls[3][2] = "\"" /\ ls[3][Len(ls[3])] = "\""
      /\ Some(QuotedText(ls[3])) = creds[1].refresh_token

\* C7: with --quiet a run prints nothing and its sinks are written all the
\* same; without it a successful run prints the banner, then the JSON text
\* the --output sink holds; nothing is printed before the run has succeeded.
C7_QuietMode ==
  /\ args.quiet => stdout = <<>>
  /\ (args.quiet /\ Done) => fs = FilesAsRequested
  /\ ~Done => stdout = <<>>
  /\ (Done /\ ~args.quiet) =>
       /\ SubSeq(stdout, 1, 4) = <<"\n", Banner, "\n", "\n">>
       /\ StdoutJson = OutputText(payload[1])
       /\ ParseJson(StdoutJson) = Parsed(ExpectedValues)

C7_Witness ==
  Done /\ args.quiet /\ OutputSet /\ EnvSet /\ args.env_file # args.output /\ fs # fs0

\* C8: the --output file, read back once it is written, parses to the five
\* values of the payload, strings character for character.
C8_OutputRoundTrip ==
  (pc = "env" /\ OutputSet)
    => ParseJson(fs[args.output].text) = Parsed(PayloadValues(payload[1]))

C8_Witness ==
  /\ pc = "env" /\ OutputSet
  /\ payload[1].refresh_token = Some(<<"\"">>)
  /\ payload[1].token_expiry = None

\* C9 as stated: after a successful run each requested sink holds exactly the
\* rendering of the payload, whatever was at its path and whichever the other
\* sink; a run repeated after a successful one leaves both files as they were.
C9_SinksIdempotent ==
  Done =>
    /\ (OutputSet => fs[args.output] = TextFile(OutputText(payload[1])))
    /\ (EnvSet => fs[args.env_file] = TextFile(EnvText(payload[1])))
    /\ prevOk => /\ (OutputSet => fs[args.output] = fs0[args.output])
                 /\ (EnvSet => fs[args.env_file] = fs0[args.env_file])

\* C9, amended: the same, the --output file holding the JSON rendering only
\* when --env-file does not name the same path.
C9_SinksIdempotentUnlessSamePath ==
  Done =>
    /\ (OutputSet /\ args.env_file # args.output
          => fs[args.output] = TextFile(OutputText(payload[1])))
    /\ (EnvSet => fs[args.env_file] = TextFile(EnvText(payload[1])))
    /\ prevOk => /\ (OutputSet => fs[args.output] = fs0[args.output])
                 /\ (EnvSet => fs[args.env_file] = fs0[args.env_file])

C9_Witness ==
  Done /\ prevOk /\ run = 2 /\ OutputSet /\ EnvSet /\ args.env_file # args.output

\* C10: when the credentials carry no refresh token, every sink a successful
\* run writes records it as null or absent: null in the JSON file and in the
\* printed JSON, and no token text between the quotes of the env file's
\* YOUTUBE_REFRESH_TOKEN line.
C10_AbsentRefreshTokenIsNull ==
  (Done /\ ~creds[1].refresh_token.some) =>
    /\ (OutputSet /\ args.env_file # args.output) =>
         LET j == ParseJson(fs[args.output].text) IN j.ok /\ j.vals[3] = None
    /\ ~args.quiet =>
         LET j == ParseJson(StdoutJson) IN j.ok /\ j.vals[3] = None
    /\ EnvSet =>
         LET ls == Lines(fs[args.env_file].text) IN
           Len(ls) < 3 \/ Len(ls[3]) <= 3

====
